---- MODULE Spec2Model ----
(***************************************************************************)
(* mysgm: agents exchanging MLS handshake artifacts (key packages,         *)
(* welcomes, commits) through a write-once key/value store.                *)
(*                                                                         *)
(* The model covers                                                        *)
(*   - the file-backed store (file_adapter.rs): get and put_checked, the   *)
(*     latter as its two file-system steps (existence test, then write),   *)
(*     because independent agent processes interleave between them;        *)
(*   - the coordinator methods of agent.rs: create_group, advertise,       *)
(*     process_next_key_package, process_next_welcome_message,             *)
(*     add_to_group;                                                       *)
(*   - the command bodies of main.rs that load the state, call the         *)
(*     coordinator (the two drain loops of `update` included) and save.    *)
(*                                                                         *)
(* Artifacts are byte strings (sequences of naturals below 256).  The MLS  *)
(* engine (openmls) is external: it is modelled by what its calls return   *)
(* for each byte string.  A key package of agent p is the byte string      *)
(* <<p>>; <<100 + p>> parses but fails validation, <<150 + p>> validates   *)
(* but carries a non-basic credential, <<200>> does not parse.  A welcome  *)
(* is <<gid, epoch, members mask, added mask>>.                            *)
(*                                                                         *)
(* Abstractions: std::fs::write is one step (a reader never sees a partly  *)
(* written file, and a failed write leaves no file).                       *)
(* The agents reach the store through the file-backed adapter, the only   *)
(* store implementation in the sources.  The accessors of MySgmState       *)
(* (state.rs) are modelled from the specification's description of the     *)
(* agent state: an append-only key-package log, a peer index into it, a    *)
(* welcome counter and the set of known group ids.                         *)
(***************************************************************************)
EXTENDS Naturals, Sequences, FiniteSets, TLC

VARIABLES
    files,      \* the store directory: key -> file content (hex characters)
    disk,       \* per agent: the state file (MySgmState as saved)
    mem,        \* per agent: the state of the running invocation (= disk when idle)
    pc,         \* per agent: position in the running command
    ctr,        \* per agent: kp_counter / wm_counter of the running allocation loop
    job,        \* per agent: the locals of the running add_to_group
    ret,        \* the result a coordinator method has just returned to main
    fetched,    \* per agent: history of the slot indices a get observed present
    allocOk,    \* per mailbox prefix: number of allocation loops that returned Ok
    raced,      \* history: keys on which put_checked returned Ok to two writers
    call,       \* SpecStore: the last call made on the store and its result
    written     \* SpecStore: key -> value of every put_checked that returned Ok

vars == <<files, disk, mem, pc, ctr, job, ret, fetched, allocOk, raced, call, written>>

----------------------------------------------------------------------------
(* Bounds and finite input domains *)

\* Bound on the slots of the key-package mailbox that producers may fill.
MaxKp == 2

\* The agents (their credential strings) that run commands.
Agents == {1, 2}

\* Group ids handed out by create_group (label + random suffix): one group,
\* which agent 1 creates.
Gids == {1}

\* Unusable byte strings other clients of the shared store have published in
\* the key-package mailbox: one that does not parse, one that fails
\* validation, one whose credential is not a basic credential.
BadKeyPackages == {<<200>>, <<101>>, <<151>>}

\* What the mailboxes hold when the agents start: the store is shared with
\* clients that are not modelled as processes.  A stranger (credential 3)
\* may have advertised, and somebody may have published a welcome for a
\* group of theirs (in the worlds where two others have published key
\* packages).
InitialKeyPackages ==
    {<<>>, <<(<<3>>)>>, <<(<<200>>)>>}
           \cup {<<(<<3>>), b>> : b \in BadKeyPackages}
InitialWelcomes(kps) ==
    IF Len(kps) = 2 THEN {<<>>, <<(<<9, 1, 0, 0>>)>>} ELSE {<<>>}

----------------------------------------------------------------------------
(* hex crate: encode / decode, and str::trim *)

HexChars == <<"0","1","2","3","4","5","6","7","8","9","a","b","c","d","e","f">>

HexVal(c) == CHOOSE i \in 0..15 : HexChars[i + 1] = c

IsHexChar(c) == \E i \in 1..16 : HexChars[i] = c

RECURSIVE hex_encode(_)
hex_encode(bytes) ==
    IF bytes = <<>> THEN <<>>
    ELSE <<HexChars[(Head(bytes) \div 16) + 1], HexChars[(Head(bytes) % 16) + 1]>>
         \o hex_encode(Tail(bytes))

RECURSIVE DecodePairs(_)
DecodePairs(s) ==
    IF s = <<>> THEN <<>>
    ELSE <<HexVal(s[1]) * 16 + HexVal(s[2])>> \o DecodePairs(SubSeq(s, 3, Len(s)))

\* hex::decode: an odd length or a non-hex character is an error.
hex_decode(s) ==
    IF Len(s) % 2 # 0 \/ \E i \in 1..Len(s) : ~IsHexChar(s[i])
    THEN [ok |-> FALSE, val |-> <<>>]
    ELSE [ok |-> TRUE, val |-> DecodePairs(s)]

IsSpace(c) == c \in {" ", "\n", "\t", "\r"}

RECURSIVE TrimStart(_)
TrimStart(s) ==
    IF s # <<>> /\ IsSpace(Head(s)) THEN TrimStart(Tail(s)) ELSE s

RECURSIVE TrimEnd(_)
TrimEnd(s) ==
    IF s # <<>> /\ IsSpace(s[Len(s)]) THEN TrimEnd(SubSeq(s, 1, Len(s) - 1)) ELSE s

trim(s) == TrimEnd(TrimStart(s))

----------------------------------------------------------------------------
(* FileAdapter (file_adapter.rs) *)

\* format!("kp_{kp_counter}"), format!("wm_{wm_counter}"), format!("cm_{}", hex)
KeyOf(prefix, suffix) == <<prefix, suffix>>

file_exists(file) == file \in DOMAIN files

\* FileAdapter::get.  io = TRUE: a file-system call fails.
get(key, io) ==
    IF io THEN [tag |-> "Err", val |-> <<>>]
    ELSE IF file_exists(key)
         THEN LET decoded_value == hex_decode(trim(files[key]))
              IN IF decoded_value.ok
                 THEN [tag |-> "Some", val |-> decoded_value.val]
                 ELSE [tag |-> "Err", val |-> <<>>]
         ELSE [tag |-> "None", val |-> <<>>]

\* Mutant: the existence test is dropped, the write always follows.
put_checked_exists_unchecked(key, io) ==
    IF io THEN "Err" ELSE "Absent"

\* FileAdapter::put_checked, first step: match file_exists(&file)?
\* "Err": the existence test failed; "Conflict": Err("Key already exists");
\* "Absent": the false arm is taken and the write follows.
put_checked_exists(key, io) ==
    IF io THEN "Err"
    ELSE IF file_exists(key) THEN "Key already exists" ELSE "Absent"

\* FileAdapter::put_checked, second step: write_string_to_file(&file, hex_encode(value))
put_checked_write(key, value) ==
    [k \in DOMAIN files \cup {key} |->
        IF k = key THEN hex_encode(value) ELSE files[k]]

\* FileAdapter::put_checked as one call; io1, io2: the existence test, the
\* write fails.
put_checked(key, value, io1, io2) ==
    LET found == put_checked_exists(key, io1) IN
    IF found # "Absent"
    THEN [res |-> IF found = "Err" THEN "StoreError" ELSE found, files |-> files]
    ELSE IF io2 THEN [res |-> "StoreError", files |-> files]
    ELSE [res |-> "Ok", files |-> put_checked_write(key, value)]

\* The indices present under a mailbox prefix.
Slots(prefix) == {k[2] : k \in {f \in DOMAIN files : f[1] = prefix}}

\* A mailbox holding the byte strings of seq in slots 0, 1, ...
Mailbox(prefix, seq) ==
    [k \in {KeyOf(prefix, i - 1) : i \in 1..Len(seq)} |-> hex_encode(seq[k[2] + 1])]

----------------------------------------------------------------------------
(* MySgmState (state.rs): the persisted agent state and its accessors *)

NoneSlot == [some |-> FALSE, kp |-> <<>>]
SomeSlot(kp) == [some |-> TRUE, kp |-> kp]

NewState ==
    [log    |-> <<>>,                      \* key_package_log
     peers  |-> [p \in {} |-> 0],          \* peer id -> index into the log
     wc     |-> 0,                         \* welcome_counter
     gids   |-> {},                        \* known group ids
     groups |-> [g \in {} |-> 0]]          \* the engine's group storage

\* log_key_package: push the slot; the index returned is the slot's position.
log_key_package(st, slot) == [st EXCEPT !.log = Append(@, slot)]
log_index_of(st) == Len(st.log)

set_key_package_log_index(st, pid, log_index) ==
    [st EXCEPT !.peers = [p \in DOMAIN @ \cup {pid} |->
                             IF p = pid THEN log_index ELSE @[p]]]

increment_welcome_counter(st) == [st EXCEPT !.wc = @ + 1]

add_group_id(st, gid) == [st EXCEPT !.gids = @ \cup {gid}]

\* Vec::get(log_index) on the 0-based log
log_at(st, log_index) == st.log[log_index + 1]

\* MySgmAgent::get_key_package: the index of pid, then the slot as_ref()
get_key_package(st, pid) ==
    IF pid \in DOMAIN st.peers
    THEN log_at(st, st.peers[pid])
    ELSE NoneSlot

----------------------------------------------------------------------------
(* The MLS engine (openmls), by what its calls return *)

\* KeyPackage::builder()...build(): the key package of agent a, serialized
new_key_package(a) == <<a>>

KeyPackageIn_tls_deserialize_exact(bytes) == Len(bytes) = 1 /\ bytes[1] < 200
KeyPackageIn_validate(bytes) == ~(bytes[1] \in 100..149)
BasicCredential_try_from(bytes) == bytes[1] < 150
credential_identity(bytes) == bytes[1]

\* The peer ids add_to_group may be given: the agents and the stranger.
Peers == Agents \cup {3}

Unmask(m) == {p \in Peers : (m \div (2 ^ (p - 1))) % 2 = 1}
Mask(S) == CHOOSE m \in 0..255 : Unmask(m) = S

\* group.export_secret(provider, "post_commit", &[], 32): a function of the
\* group and its epoch
export_secret(gid, group) == <<gid, group.epoch>>

\* group.add_members_without_update: fails on an empty list and on a key
\* package of somebody who is a member already
add_members_ok(group, pids) == pids # {} /\ pids \cap group.members = {}

MergedGroup(group, pids) ==
    [members |-> group.members \cup pids, epoch |-> group.epoch + 1]

commit_bytes(gid, group, pids) == <<gid, group.epoch, Mask(pids)>>

welcome_bytes(gid, group, pids) ==
    <<gid, group.epoch + 1, Mask(group.members \cup pids), Mask(pids)>>

Welcome_tls_deserialize_bytes(bytes) == Len(bytes) = 4

\* StagedWelcome::new_from_welcome + into_group: the welcome must be
\* addressed to a key package of this agent, for a group it is not in
join_ok(st, a, bytes) ==
    a \in Unmask(bytes[4]) /\ ~(bytes[1] \in DOMAIN st.groups)

joined_group(bytes) == [members |-> Unmask(bytes[3]), epoch |-> bytes[2]]

store_group(st, gid, group) ==
    [st EXCEPT !.groups = [g \in DOMAIN @ \cup {gid} |->
                              IF g = gid THEN group ELSE @[g]]]

----------------------------------------------------------------------------
(* MySgmAgent (agent.rs): the consumption steps, as functions of the state *)
(* and of what the store's get returned                                    *)

Result(st, res) == [st |-> st, res |-> res]

\* Mutant: an absent slot is logged as a None placeholder.
process_next_key_package_logs_absent(st, got) ==
    IF got.tag = "Err" THEN Result(st, "StoreError")
    ELSE IF got.tag = "None"
    THEN Result(log_key_package(st, NoneSlot), "NoNewKeyPackages")
    ELSE LET kp_bytes == got.val IN
         IF ~KeyPackageIn_tls_deserialize_exact(kp_bytes)
         THEN Result(log_key_package(st, NoneSlot), "DeserializeError")
         ELSE IF ~KeyPackageIn_validate(kp_bytes)
         THEN Result(log_key_package(st, NoneSlot), "ValidateError")
         ELSE IF ~BasicCredential_try_from(kp_bytes)
         THEN Result(log_key_package(st, NoneSlot), "CredentialError")
         ELSE LET log_index == log_index_of(st)
                  logged == log_key_package(st, SomeSlot(kp_bytes))
              IN Result(set_key_package_log_index(
                            logged, credential_identity(kp_bytes), log_index),
                        "Ok")

\* Mutant: the credential failure returns without logging the placeholder.
process_next_key_package_drops_placeholder(st, got) ==
    IF got.tag = "Err" THEN Result(st, "StoreError")
    ELSE IF got.tag = "None" THEN Result(st, "NoNewKeyPackages")
    ELSE LET kp_bytes == got.val IN
         IF ~KeyPackageIn_tls_deserialize_exact(kp_bytes)
         THEN Result(log_key_package(st, NoneSlot), "DeserializeError")
         ELSE IF ~KeyPackageIn_validate(kp_bytes)
         THEN Result(log_key_package(st, NoneSlot), "ValidateError")
         ELSE IF ~BasicCredential_try_from(kp_bytes)
         THEN Result(st, "CredentialError")
         ELSE LET log_index == log_index_of(st)
                  logged == log_key_package(st, SomeSlot(kp_bytes))
              IN Result(set_key_package_log_index(
                            logged, credential_identity(kp_bytes), log_index),
                        "Ok")

\* Mutant: the peer index keeps the first key package of a peer.
process_next_key_package_keeps_first(st, got) ==
    IF got.tag = "Err" THEN Result(st, "StoreError")
    ELSE IF got.tag = "None" THEN Result(st, "NoNewKeyPackages")
    ELSE LET kp_bytes == got.val IN
         IF ~KeyPackageIn_tls_deserialize_exact(kp_bytes)
         THEN Result(log_key_package(st, NoneSlot), "DeserializeError")
         ELSE IF ~KeyPackageIn_validate(kp_bytes)
         THEN Result(log_key_package(st, NoneSlot), "ValidateError")
         ELSE IF ~BasicCredential_try_from(kp_bytes)
         THEN Result(log_key_package(st, NoneSlot), "CredentialError")
         ELSE LET log_index == log_index_of(st)
                  logged == log_key_package(st, SomeSlot(kp_bytes))
              IN IF credential_identity(kp_bytes) \in DOMAIN st.peers
                 THEN Result(logged, "Ok")
                 ELSE Result(set_key_package_log_index(
                                 logged, credential_identity(kp_bytes), log_index),
                             "Ok")

\* Mutant: the log index is taken after the push (the new length).
process_next_key_package_index_after_push(st, got) ==
    IF got.tag = "Err" THEN Result(st, "StoreError")
    ELSE IF got.tag = "None" THEN Result(st, "NoNewKeyPackages")
    ELSE LET kp_bytes == got.val IN
         IF ~KeyPackageIn_tls_deserialize_exact(kp_bytes)
         THEN Result(log_key_package(st, NoneSlot), "DeserializeError")
         ELSE IF ~KeyPackageIn_validate(kp_bytes)
         THEN Result(log_key_package(st, NoneSlot), "ValidateError")
         ELSE IF ~BasicCredential_try_from(kp_bytes)
         THEN Result(log_key_package(st, NoneSlot), "CredentialError")
         ELSE LET logged == log_key_package(st, SomeSlot(kp_bytes))
                  log_index == log_index_of(logged)
              IN Result(set_key_package_log_index(
                            logged, credential_identity(kp_bytes), log_index),
                        "Ok")

\* Mutant: the validation step is left out, what parses is logged as Some.
process_next_key_package_unvalidated(st, got) ==
    IF got.tag = "Err" THEN Result(st, "StoreError")
    ELSE IF got.tag = "None" THEN Result(st, "NoNewKeyPackages")
    ELSE LET kp_bytes == got.val IN
         IF ~KeyPackageIn_tls_deserialize_exact(kp_bytes)
         THEN Result(log_key_package(st, NoneSlot), "DeserializeError")
         ELSE IF ~BasicCredential_try_from(kp_bytes)
         THEN Result(log_key_package(st, NoneSlot), "CredentialError")
         ELSE LET log_index == log_index_of(st)
                  logged == log_key_package(st, SomeSlot(kp_bytes))
              IN Result(set_key_package_log_index(
                            logged, credential_identity(kp_bytes), log_index),
                        "Ok")

process_next_key_package(st, got) ==
    IF got.tag = "Err" THEN Result(st, "StoreError")
    ELSE IF got.tag = "None" THEN Result(st, "NoNewKeyPackages")
    ELSE LET kp_bytes == got.val IN
         IF ~KeyPackageIn_tls_deserialize_exact(kp_bytes)
         THEN Result(log_key_package(st, NoneSlot), "DeserializeError")
         ELSE IF ~KeyPackageIn_validate(kp_bytes)
         THEN Result(log_key_package(st, NoneSlot), "ValidateError")
         ELSE IF ~BasicCredential_try_from(kp_bytes)
         THEN Result(log_key_package(st, NoneSlot), "CredentialError")
         ELSE LET log_index == log_index_of(st)
                  logged == log_key_package(st, SomeSlot(kp_bytes))
              IN Result(set_key_package_log_index(
                            logged, credential_identity(kp_bytes), log_index),
                        "Ok")

\* Mutant: the group id of the welcome is recorded before the join is tried.
process_next_welcome_message_adds_unjoined(st, a, got) ==
    IF got.tag = "Err" THEN Result(st, "StoreError")
    ELSE IF got.tag = "None" THEN Result(st, "NoNewWelcomeMessages")
    ELSE LET wm_bytes == got.val
             counted == increment_welcome_counter(st)
         IN IF ~Welcome_tls_deserialize_bytes(wm_bytes)
            THEN Result(counted, "DeserializeError")
            ELSE IF ~join_ok(counted, a, wm_bytes)
            THEN Result(add_group_id(counted, wm_bytes[1]), "EngineError")
            ELSE Result(add_group_id(
                            store_group(counted, wm_bytes[1], joined_group(wm_bytes)),
                            wm_bytes[1]),
                        "Ok")

\* Mutant: the welcome counter is incremented only once the join succeeded.
process_next_welcome_message_counts_joined(st, a, got) ==
    IF got.tag = "Err" THEN Result(st, "StoreError")
    ELSE IF got.tag = "None" THEN Result(st, "NoNewWelcomeMessages")
    ELSE LET wm_bytes == got.val IN
         IF ~Welcome_tls_deserialize_bytes(wm_bytes)
         THEN Result(st, "DeserializeError")
         ELSE IF ~join_ok(st, a, wm_bytes)
         THEN Result(st, "EngineError")
         ELSE Result(add_group_id(
                         store_group(increment_welcome_counter(st), wm_bytes[1],
                                     joined_group(wm_bytes)),
                         wm_bytes[1]),
                     "Ok")

\* Mutant: the welcome counter is incremented before the slot is matched.
process_next_welcome_message_counts_absent(st, a, got) ==
    IF got.tag = "Err" THEN Result(st, "StoreError")
    ELSE IF got.tag = "None"
    THEN Result(increment_welcome_counter(st), "NoNewWelcomeMessages")
    ELSE LET wm_bytes == got.val
             counted == increment_welcome_counter(st)
         IN IF ~Welcome_tls_deserialize_bytes(wm_bytes)
            THEN Result(counted, "DeserializeError")
            ELSE IF ~join_ok(counted, a, wm_bytes)
            THEN Result(counted, "EngineError")
            ELSE Result(add_group_id(
                            store_group(counted, wm_bytes[1], joined_group(wm_bytes)),
                            wm_bytes[1]),
                        "Ok")

process_next_welcome_message(st, a, got) ==
    IF got.tag = "Err" THEN Result(st, "StoreError")
    ELSE IF got.tag = "None" THEN Result(st, "NoNewWelcomeMessages")
    ELSE LET wm_bytes == got.val
             counted == increment_welcome_counter(st)
         IN IF ~Welcome_tls_deserialize_bytes(wm_bytes)
            THEN Result(counted, "DeserializeError")
            ELSE IF ~join_ok(counted, a, wm_bytes)
            THEN Result(counted, "EngineError")
            ELSE Result(add_group_id(
                            store_group(counted, wm_bytes[1], joined_group(wm_bytes)),
                            wm_bytes[1]),
                        "Ok")

ValidationErrors == {"DeserializeError", "ValidateError", "CredentialError"}

----------------------------------------------------------------------------
(* Initial state: an empty store directory, every agent freshly reset *)

\* ret holds the return of a coordinator method until main has taken it:
\* who called what, the result, and for add_to_group whether by then the
\* commit's put had returned Ok (cm), the pending commit was merged (merged)
\* and a welcome slot had been written (wm).
NoRet == [who |-> 0, op |-> "none", res |-> "none",
          cm |-> FALSE, merged |-> FALSE, wm |-> FALSE]
NoJob == [gid |-> 0, pids |-> {}, key |-> <<>>, commit |-> <<>>, welcome |-> <<>>,
          created |-> {}]
NoCall == [op |-> "none", key |-> <<>>, value |-> <<>>, res |-> "none", val |-> <<>>]

Init ==
    /\ \E kps \in InitialKeyPackages : \E wms \in InitialWelcomes(kps) :
         files = Mailbox("kp_", kps) @@ Mailbox("wm_", wms)
    /\ disk = [a \in Agents |-> NewState]
    /\ mem = [a \in Agents |-> NewState]
    /\ pc = [a \in Agents |-> "idle"]
    /\ ctr = [a \in Agents |-> 0]
    /\ job = [a \in Agents |-> NoJob]
    /\ ret = NoRet
    /\ fetched = [a \in Agents |-> [kp |-> <<>>, wm |-> <<>>]]
    /\ allocOk = [p \in {"kp_", "wm_"} |-> Cardinality(Slots(p))]
    /\ raced = {}
    /\ call = NoCall
    /\ written = [k \in {} |-> <<>>]

\* The command of agent a ends: with `saved` the state is written back
\* (agent.save), otherwise the process died on unwrap() and the state file
\* is what it was.
Finish(a, st, saved) ==
    /\ pc' = [pc EXCEPT ![a] = "idle"]
    /\ disk' = [disk EXCEPT ![a] = IF saved THEN st ELSE @]
    /\ mem' = [mem EXCEPT ![a] = IF saved THEN st ELSE disk[a]]
    /\ ctr' = [ctr EXCEPT ![a] = 0]
    /\ job' = [job EXCEPT ![a] = NoJob]

Returned(a, op, res) ==
    ret' = [who |-> a, op |-> op, res |-> res,
            cm |-> FALSE, merged |-> FALSE, wm |-> FALSE]

ReturnedAddToGroup(a, res, cm, merged, wm) ==
    ret' = [who |-> a, op |-> "add_to_group", res |-> res,
            cm |-> cm, merged |-> merged, wm |-> wm]

NoReturn == ret' = NoRet

\* main takes the result (logs it, or unwraps it): a step local to the
\* process, so it is the one step that follows a return.
Taken ==
    /\ ret # NoRet
    /\ ret' = NoRet
    /\ UNCHANGED <<files, disk, mem, pc, ctr, job, fetched, allocOk, raced, call, written>>

\* put_checked returned Ok on `key`: a race if the file was there already
Won(key) == raced' = IF file_exists(key) THEN raced \cup {key} ELSE raced

\* The allocation loop's answer to "Key already exists" (agent.rs:159, 269)
next_candidate(counter) == counter + 1

----------------------------------------------------------------------------
(* Commands::CreateGroup / MySgmAgent::create_group *)

\* Group g is the one agent g creates; the random 4-byte suffix makes the id
\* one that nobody holds yet.
FreshGids(a) ==
    {g \in Gids : g = a /\ \A b \in Agents : ~(g \in DOMAIN disk[b].groups)
                                              /\ ~(g \in DOMAIN mem[b].groups)}

\* format!("{}__{}", gid_label, hex::encode(random_vec(4)))
gid_transformed(gid_label, random) ==
    gid_label \o <<"_", "_">> \o hex_encode(random)

\* The id string group g of the model stands for: the label "team" and the
\* four random bytes that make it group g.
GroupLabel == <<"t", "e", "a", "m">>
GidString(g) == gid_transformed(GroupLabel, <<g, 16 * g, 255 - g, 0>>)

create_group(st, a, gid) ==
    add_group_id(store_group(st, gid, [members |-> {a}, epoch |-> 0]), gid)

CreateGroup(a) ==
    /\ pc[a] = "idle" /\ ret = NoRet
    /\ \E gid \in FreshGids(a), engine_ok \in BOOLEAN :
         IF engine_ok
         THEN /\ Finish(a, create_group(mem[a], a, gid), TRUE)
              /\ Returned(a, "create_group", "Ok")
         ELSE /\ Finish(a, mem[a], FALSE)
              /\ Returned(a, "create_group", "EngineError")
    /\ UNCHANGED <<files, fetched, allocOk, raced, call, written>>

----------------------------------------------------------------------------
(* Commands::Advertise / MySgmAgent::advertise *)

Producing == {b \in Agents : pc[b] \in {"adv", "adv_w"}}

\* One pass of the loop up to put_checked's existence test, and the match
\* on its error.
AdvertiseProbe(a, kp_counter) ==
    /\ \E io \in BOOLEAN :
         LET res == put_checked_exists(KeyOf("kp_", kp_counter), io) IN
         IF res = "Err"
         THEN /\ Finish(a, mem[a], FALSE)
              /\ Returned(a, "advertise", "StoreError")
         ELSE IF res = "Key already exists"
         THEN /\ ctr' = [ctr EXCEPT ![a] = next_candidate(kp_counter)]
              /\ pc' = [pc EXCEPT ![a] = "adv"]
              /\ NoReturn
              /\ UNCHANGED <<disk, mem, job>>
         ELSE /\ ctr' = [ctr EXCEPT ![a] = kp_counter]
              /\ pc' = [pc EXCEPT ![a] = "adv_w"]
              /\ NoReturn
              /\ UNCHANGED <<disk, mem, job>>
    /\ UNCHANGED <<files, fetched, allocOk, raced, call, written>>

\* load, new_key_package, kp_counter = key_package_log().len(), first pass
AdvertiseStart(a) ==
    /\ pc[a] = "idle" /\ ret = NoRet
    /\ Cardinality(Slots("kp_")) + Cardinality(Producing) < MaxKp
    /\ AdvertiseProbe(a, Len(mem[a].log))

\* a further pass, after a conflict
AdvertiseRetry(a) ==
    /\ pc[a] = "adv" /\ ret = NoRet
    /\ AdvertiseProbe(a, ctr[a])

\* put_checked, the write, then return Ok(()) and save
AdvertiseWrite(a) ==
    /\ pc[a] = "adv_w" /\ ret = NoRet
    /\ \E io \in BOOLEAN :
         IF io
         THEN /\ Finish(a, mem[a], FALSE)
              /\ Returned(a, "advertise", "StoreError")
              /\ UNCHANGED <<files, allocOk, raced>>
         ELSE /\ files' = put_checked_write(KeyOf("kp_", ctr[a]), new_key_package(a))
              /\ Finish(a, mem[a], TRUE)
              /\ Returned(a, "advertise", "Ok")
              /\ allocOk' = [allocOk EXCEPT !["kp_"] = @ + 1]
              /\ Won(KeyOf("kp_", ctr[a]))
    /\ UNCHANGED <<fetched, call, written>>

----------------------------------------------------------------------------
(* Commands::Update: the two drain loops of main.rs *)

\* main.rs:148-155 / 165-172: the loop is left on the sentinel only
drain_break(res, sentinel) == res = sentinel

Observe(a, box, got, index) ==
    fetched' = [fetched EXCEPT ![a][box] =
                   IF got.tag = "Some" THEN Append(@, index) ELSE @]

\* KeyPackagePass that writes the state file after the pass (a variant
\* the code does not have: it saves once, when the loops are over).
KeyPackagePass_saves(a) ==
    /\ \E io \in BOOLEAN :
         LET kp_counter == Len(mem[a].log)
             got == get(KeyOf("kp_", kp_counter), io)
             r == process_next_key_package(mem[a], got)
         IN /\ mem' = [mem EXCEPT ![a] = r.st]
            /\ disk' = [disk EXCEPT ![a] = r.st]
            /\ Returned(a, "process_next_key_package", r.res)
            /\ Observe(a, "kp", got, kp_counter)
            /\ pc' = [pc EXCEPT ![a] =
                         IF drain_break(r.res, "NoNewKeyPackages")
                         THEN "upd_wm" ELSE "upd_kp"]
    /\ UNCHANGED <<files, ctr, job, allocOk, raced, call, written>>

\* one pass of the key-package loop: agent.process_next_key_package()
KeyPackagePass(a) ==
    /\ \E io \in BOOLEAN :
         LET kp_counter == Len(mem[a].log)
             got == get(KeyOf("kp_", kp_counter), io)
             r == process_next_key_package(mem[a], got)
         IN /\ mem' = [mem EXCEPT ![a] = r.st]
            /\ Returned(a, "process_next_key_package", r.res)
            /\ Observe(a, "kp", got, kp_counter)
            /\ pc' = [pc EXCEPT ![a] =
                         IF drain_break(r.res, "NoNewKeyPackages")
                         THEN "upd_wm" ELSE "upd_kp"]
    /\ UNCHANGED <<files, disk, ctr, job, allocOk, raced, call, written>>

\* load, then the first pass of the key-package loop
UpdateStart(a) ==
    /\ pc[a] = "idle" /\ ret = NoRet
    /\ KeyPackagePass(a)

UpdateKeyPackage(a) ==
    /\ pc[a] = "upd_kp" /\ ret = NoRet
    /\ KeyPackagePass(a)

\* one pass of the welcome loop: agent.process_next_welcome_message();
\* after the loop the state is saved
UpdateWelcome(a) ==
    /\ pc[a] = "upd_wm" /\ ret = NoRet
    /\ \E io \in BOOLEAN :
         LET welcome_counter == mem[a].wc
             got == get(KeyOf("wm_", welcome_counter), io)
             r == process_next_welcome_message(mem[a], a, got)
         IN /\ Returned(a, "process_next_welcome_message", r.res)
            /\ Observe(a, "wm", got, welcome_counter)
            /\ IF drain_break(r.res, "NoNewWelcomeMessages")
               THEN Finish(a, r.st, TRUE)
               ELSE /\ mem' = [mem EXCEPT ![a] = r.st]
                    /\ UNCHANGED <<pc, disk, ctr, job>>
    /\ UNCHANGED <<files, allocOk, raced, call, written>>

----------------------------------------------------------------------------
(* Commands::AddToGroup / MySgmAgent::add_to_group *)

\* Mutant: a peer without a key package is left out instead of failing.
add_to_group_prepare_skips_missing(st, gid, pids) ==
    IF ~(gid \in DOMAIN st.groups) THEN "Group not found"
    ELSE IF ~add_members_ok(st.groups[gid],
                            {p \in pids : get_key_package(st, p).some})
    THEN "EngineError"
    ELSE "Ok"

\* agent.rs:234-249: load the group, look the key packages up, build the
\* commit and the welcome
add_to_group_prepare(st, gid, pids) ==
    IF ~(gid \in DOMAIN st.groups) THEN "Group not found"
    ELSE IF \E p \in pids : ~get_key_package(st, p).some
    THEN "Key package not found"
    ELSE IF ~add_members_ok(st.groups[gid], pids) THEN "EngineError"
    ELSE "Ok"

add_to_group_job(st, gid, pids) ==
    [gid     |-> gid,
     pids    |-> pids,
     key     |-> KeyOf("cm_", hex_encode(export_secret(gid, st.groups[gid]))),
     commit  |-> commit_bytes(gid, st.groups[gid], pids),
     welcome |-> welcome_bytes(gid, st.groups[gid], pids),
     created |-> {}]                       \* history: the keys this call created

\* Mutant: the pending commit is merged whatever the put returned.
commit_published_merges_always(st, j, put_res) ==
    [st |-> store_group(st, j.gid, MergedGroup(st.groups[j.gid], j.pids)),
     merged |-> TRUE]

\* Mutant: publishing the commit moves the welcome cursor past the welcome
\* that is about to be written.
commit_published_counts_welcome(st, j, put_res) ==
    IF put_res = "Ok"
    THEN [st |-> increment_welcome_counter(
                     store_group(st, j.gid, MergedGroup(st.groups[j.gid], j.pids))),
          merged |-> TRUE]
    ELSE [st |-> st, merged |-> FALSE]

\* agent.rs:251-256: the `?` on the commit's put_checked, then
\* merge_pending_commit
commit_published(st, j, put_res) ==
    IF put_res = "Ok"
    THEN [st |-> store_group(st, j.gid, MergedGroup(st.groups[j.gid], j.pids)),
          merged |-> TRUE]
    ELSE [st |-> st, merged |-> FALSE]

\* The commit put failed with `err`: add_to_group returns it, main panics.
CommitPutFailed(a, j, err) ==
    LET end == commit_published(mem[a], j, err) IN
    /\ Finish(a, end.st, FALSE)
    /\ ReturnedAddToGroup(a, err, FALSE, end.merged, FALSE)

\* load, read the peer ids, add_to_group up to the existence test of the
\* commit's put_checked
AddToGroupStart(a) ==
    /\ pc[a] = "idle" /\ ret = NoRet
    /\ \E gid \in Gids, pids \in SUBSET Peers, io \in BOOLEAN :
         LET res == add_to_group_prepare(mem[a], gid, pids) IN
         IF res # "Ok"
         THEN /\ Finish(a, mem[a], FALSE)
              /\ ReturnedAddToGroup(a, res, FALSE, FALSE, FALSE)
         ELSE LET j == add_to_group_job(mem[a], gid, pids)
                  put == put_checked_exists(j.key, io)
              IN IF put = "Err" THEN CommitPutFailed(a, j, "StoreError")
                 ELSE IF put = "Key already exists" THEN CommitPutFailed(a, j, put)
                 ELSE /\ pc' = [pc EXCEPT ![a] = "atg_cm_w"]
                      /\ job' = [job EXCEPT ![a] = j]
                      /\ NoReturn
                      /\ UNCHANGED <<disk, mem, ctr>>
    /\ UNCHANGED <<files, fetched, allocOk, raced, call, written>>

\* the commit's write; on Ok the merge, and wm_counter = welcome_counter()
AddToGroupCommitWrite(a) ==
    /\ pc[a] = "atg_cm_w" /\ ret = NoRet
    /\ \E io \in BOOLEAN :
         IF io
         THEN /\ CommitPutFailed(a, job[a], "StoreError")
              /\ UNCHANGED <<files, raced>>
         ELSE LET done == commit_published(mem[a], job[a], "Ok") IN
              /\ files' = put_checked_write(job[a].key, job[a].commit)
              /\ Won(job[a].key)
              /\ mem' = [mem EXCEPT ![a] = done.st]
              /\ ctr' = [ctr EXCEPT ![a] = done.st.wc]
              /\ pc' = [pc EXCEPT ![a] = "atg_wm"]
              /\ job' = [job EXCEPT ![a].created =
                             IF file_exists(job[a].key) THEN @ ELSE @ \cup {job[a].key}]
              /\ NoReturn
              /\ UNCHANGED disk
    /\ UNCHANGED <<fetched, allocOk, call, written>>

\* Whether the running add_to_group of a has merged its commit in memory
Merged(a) ==
    /\ job[a].gid \in DOMAIN mem[a].groups
    /\ mem[a].groups[job[a].gid] # disk[a].groups[job[a].gid]

\* one pass of the welcome loop up to the existence test
AddToGroupWelcomeExists(a) ==
    /\ pc[a] = "atg_wm" /\ ret = NoRet
    /\ \E io \in BOOLEAN :
         LET res == put_checked_exists(KeyOf("wm_", ctr[a]), io) IN
         IF res = "Err"
         THEN /\ Finish(a, mem[a], FALSE)
              /\ ReturnedAddToGroup(a, "StoreError", TRUE, Merged(a), FALSE)
         ELSE IF res = "Key already exists"
         THEN /\ ctr' = [ctr EXCEPT ![a] = next_candidate(@)]
              /\ NoReturn
              /\ UNCHANGED <<pc, disk, mem, job>>
         ELSE /\ pc' = [pc EXCEPT ![a] = "atg_wm_w"]
              /\ NoReturn
              /\ UNCHANGED <<ctr, disk, mem, job>>
    /\ UNCHANGED <<files, fetched, allocOk, raced, call, written>>

\* the welcome's write, break, Ok(()) and save
AddToGroupWelcomeWrite(a) ==
    /\ pc[a] = "atg_wm_w" /\ ret = NoRet
    /\ \E io \in BOOLEAN :
         IF io
         THEN /\ Finish(a, mem[a], FALSE)
              /\ ReturnedAddToGroup(a, "StoreError", TRUE, Merged(a), FALSE)
              /\ UNCHANGED <<files, allocOk, raced>>
         ELSE /\ files' = put_checked_write(KeyOf("wm_", ctr[a]), job[a].welcome)
              /\ Won(KeyOf("wm_", ctr[a]))
              /\ allocOk' = [allocOk EXCEPT !["wm_"] = @ + 1]
              /\ Finish(a, mem[a], TRUE)
              /\ ReturnedAddToGroup(a, "Ok", TRUE, Merged(a), TRUE)
    /\ UNCHANGED <<fetched, call, written>>

----------------------------------------------------------------------------
(* The system: every agent runs commands one after another; the agents'   *)
(* steps, and the foreign client's, interleave                            *)

Next ==
    \/ Taken
    \/ \E a \in Agents : CreateGroup(a)
    \/ \E a \in Agents : AdvertiseStart(a)
    \/ \E a \in Agents : AdvertiseRetry(a)
    \/ \E a \in Agents : AdvertiseWrite(a)
    \/ \E a \in Agents : UpdateStart(a)
    \/ \E a \in Agents : UpdateKeyPackage(a)
    \/ \E a \in Agents : UpdateWelcome(a)
    \/ \E a \in Agents : AddToGroupStart(a)
    \/ \E a \in Agents : AddToGroupCommitWrite(a)
    \/ \E a \in Agents : AddToGroupWelcomeExists(a)
    \/ \E a \in Agents : AddToGroupWelcomeWrite(a)

Spec == Init /\ [][Next]_vars

\* The process of agent a dies in the middle of a command (it is killed, the
\* machine stops): the state in memory is gone, the state file is what the
\* last agent.save made it, the store keeps what was written.  The slots the
\* dead process observed count for nothing: `fetched` keeps the observations
\* the state file accounts for.  The death is reported as "Lost" when the
\* process had changed its state in memory.
Crash(a) ==
    /\ pc[a] # "idle" /\ ret = NoRet
    /\ Finish(a, mem[a], FALSE)
    /\ Returned(a, "crash", IF mem[a] = disk[a] THEN "Clean" ELSE "Lost")
    /\ fetched' = [fetched EXCEPT ![a] =
                      [kp |-> SubSeq(@.kp, 1, Len(disk[a].log)),
                       wm |-> SubSeq(@.wm, 1, disk[a].wc)]]
    /\ UNCHANGED <<files, allocOk, raced, call, written>>

NextCrash == Next \/ \E a \in Agents : Crash(a)

SpecCrash == Init /\ [][NextCrash]_vars

\* A step of the command agent a is running.  A started process keeps
\* running (one Coordinator call runs to completion); nothing obliges an
\* agent to start a command.
Running(a) ==
    \/ AdvertiseRetry(a) \/ AdvertiseWrite(a)
    \/ UpdateKeyPackage(a) \/ UpdateWelcome(a)
    \/ AddToGroupCommitWrite(a) \/ AddToGroupWelcomeExists(a)
    \/ AddToGroupWelcomeWrite(a)

SpecFair ==
    Spec /\ WF_vars(Taken) /\ \A a \in Agents : WF_vars(Running(a))

----------------------------------------------------------------------------
(* The store on its own: one client making whole get / put_checked calls  *)
(* one after another                                                      *)

StoreKeys == {KeyOf("kp_", 0), KeyOf("kp_", 1), KeyOf("cm_", hex_encode(<<1, 0>>))}
StoreValues == {<<>>, <<65>>, <<66>>, <<171, 16>>}

InitStore ==
    /\ files = [k \in {} |-> <<>>]
    /\ disk = [a \in Agents |-> NewState]
    /\ mem = [a \in Agents |-> NewState]
    /\ pc = [a \in Agents |-> "idle"]
    /\ ctr = [a \in Agents |-> 0]
    /\ job = [a \in Agents |-> NoJob]
    /\ ret = NoRet
    /\ fetched = [a \in Agents |-> [kp |-> <<>>, wm |-> <<>>]]
    /\ allocOk = [p \in {"kp_", "wm_"} |-> 0]
    /\ raced = {}
    /\ call = NoCall
    /\ written = [k \in {} |-> <<>>]

StorePut ==
    /\ \E key \in StoreKeys, value \in StoreValues, io1 \in BOOLEAN, io2 \in BOOLEAN :
         LET r == put_checked(key, value, io1, io2) IN
         /\ files' = r.files
         /\ call' = [op |-> "put_checked", key |-> key, value |-> value,
                     res |-> r.res, val |-> <<>>]
         /\ written' = IF r.res = "Ok"
                       THEN [k \in DOMAIN written \cup {key} |->
                                IF k \in DOMAIN written THEN written[k] ELSE value]
                       ELSE written
    /\ UNCHANGED <<disk, mem, pc, ctr, job, ret, fetched, allocOk, raced>>

StoreGet ==
    /\ \E key \in StoreKeys, io \in BOOLEAN :
         LET got == get(key, io) IN
         call' = [op |-> "get", key |-> key, value |-> <<>>,
                  res |-> got.tag, val |-> got.val]
    /\ UNCHANGED <<files, disk, mem, pc, ctr, job, ret, fetched, allocOk, raced, written>>

NextStore == StorePut \/ StoreGet

SpecStore == InitStore /\ [][NextStore]_vars

----------------------------------------------------------------------------
(* Properties *)

DrainOps == {"process_next_key_package", "process_next_welcome_message"}

\* A coordinator method of agent a returns in this step.
Returns(a) == ret' # ret /\ ret'.who = a

\* The key-package bytes a validation step rejects.
Rejected(bytes) ==
    \/ ~KeyPackageIn_tls_deserialize_exact(bytes)
    \/ ~KeyPackageIn_validate(bytes)
    \/ ~BasicCredential_try_from(bytes)

\* C1: the indices written under "kp_" and under "wm_" are exactly
\* 0 .. k-1, k being the number of allocation loops that returned success.
C1_Gapless ==
    \A p \in {"kp_", "wm_"} : Slots(p) = {i \in 0..allocOk[p] : i < allocOk[p]}

\* C2: put_checked never returns success to two writers of the same key.
C2_OneWinner == raced = {}

\* C3: write-once store.  In a sequence of whole store calls whose
\* file-system operations do not fail, put_checked(k, v) returns Ok exactly
\* when no earlier put_checked on k returned Ok, and otherwise returns the
\* conflict error and writes nothing; every key holds, for good, the value
\* of the put that succeeded on it.
C3_Held ==
    /\ DOMAIN files = DOMAIN written
    /\ \A k \in DOMAIN written : files[k] = hex_encode(written[k])

C3_Put ==
    (call'.op = "put_checked" /\ <<call, files, written>>' # <<call, files, written>>)
    => /\ (call'.res # "StoreError")
            => (call'.res = "Ok" <=> ~(call'.key \in DOMAIN written))
       /\ (call'.key \in DOMAIN written /\ call'.res # "StoreError")
            => call'.res = "Key already exists"
       /\ call'.res # "Ok" => files' = files
       /\ \A k \in DOMAIN files : k \in DOMAIN files' /\ files'[k] = files[k]

C3_WriteOnce == []C3_Held /\ [][C3_Put]_vars

C3_Witness ==
    /\ call.op = "put_checked" /\ call.res = "Key already exists"
    /\ call.value # written[call.key]
    /\ Cardinality(DOMAIN written) >= 2

\* C4: the slots a get observed present are, for each agent and each
\* mailbox, 0, 1, 2, ... in this order, one observation per slot, and the
\* cursor is the number of observations: every observation of a present
\* slot advanced the cursor by exactly one, whatever became of the artifact.
InOrder(seen, cursor) ==
    Len(seen) = cursor /\ \A i \in 1..Len(seen) : seen[i] = i - 1

C4_ExactlyOnceInOrder ==
    \A a \in Agents :
        /\ InOrder(fetched[a].kp, Len(mem[a].log))
        /\ InOrder(fetched[a].wm, mem[a].wc)

C4_Witness ==
    \E a \in Agents :
        /\ Len(fetched[a].kp) >= 2
        /\ \E i \in 1..Len(mem[a].log) : ~mem[a].log[i].some
        /\ \E i \in 1..Len(mem[a].log) : mem[a].log[i].some
        /\ Len(fetched[a].wm) >= 1
        /\ mem[a].gids = {}

\* C5: welcome_cursor never exceeds the number of "wm_" slots written and
\* len(key_package_log) never exceeds the number of "kp_" slots written, in
\* memory and on disk, and neither value ever decreases.
C5_Bounded ==
    \A a \in Agents :
        /\ mem[a].wc <= Cardinality(Slots("wm_"))
        /\ disk[a].wc <= Cardinality(Slots("wm_"))
        /\ Len(mem[a].log) <= Cardinality(Slots("kp_"))
        /\ Len(disk[a].log) <= Cardinality(Slots("kp_"))

C5_Monotone ==
    \A a \in Agents :
        /\ mem'[a].wc >= mem[a].wc
        /\ disk'[a].wc >= disk[a].wc
        /\ Len(mem'[a].log) >= Len(mem[a].log)
        /\ Len(disk'[a].log) >= Len(disk[a].log)

C5_Cursors == []C5_Bounded /\ [][C5_Monotone]_vars

C5_Witness ==
    \E a \in Agents :
        /\ Len(disk[a].log) = Cardinality(Slots("kp_"))
        /\ Len(disk[a].log) >= 2
        /\ disk[a].wc = Cardinality(Slots("wm_"))
        /\ disk[a].wc >= 1
        /\ \E b \in Agents : Len(disk[b].log) < Len(disk[a].log)

\* C6: a consumption step whose get finds the slot at the cursor absent
\* returns the mailbox-empty sentinel and leaves the agent state (log, peer
\* index, welcome cursor, group ids) as it was; the drain loop ends there.
C6_Step ==
    \A a \in Agents :
        Returns(a) /\ ret'.op \in DrainOps /\ ret'.res # "StoreError" =>
            /\ (ret'.op = "process_next_key_package"
                /\ ~file_exists(KeyOf("kp_", Len(mem[a].log))))
                   => /\ ret'.res = "NoNewKeyPackages"
                      /\ mem'[a] = mem[a]
                      /\ fetched' = fetched
                      /\ pc'[a] = "upd_wm"
            /\ (ret'.op = "process_next_welcome_message"
                /\ ~file_exists(KeyOf("wm_", mem[a].wc)))
                   => /\ ret'.res = "NoNewWelcomeMessages"
                      /\ mem'[a] = mem[a]
                      /\ fetched' = fetched
                      /\ pc'[a] = "idle"

C6_EmptySentinel == [][C6_Step]_vars

C6_Witness ==
    /\ ret.op = "process_next_welcome_message"
    /\ ret.res = "NoNewWelcomeMessages"
    /\ Slots("kp_") = {} /\ Slots("wm_") = {}

\* C7: a key-package step on a present slot whose artifact fails
\* deserialization, validation or credential extraction appends exactly one
\* None placeholder, leaves the peer index (and the rest of the state)
\* unchanged, returns the validation error, and the drain loop goes on.
C7_Step ==
    \A a \in Agents :
        LET key == KeyOf("kp_", Len(mem[a].log)) IN
        (/\ Returns(a) /\ ret'.op = "process_next_key_package"
         /\ ret'.res # "StoreError"
         /\ file_exists(key)
         /\ Rejected(hex_decode(trim(files[key])).val))
        => /\ mem'[a] = [mem[a] EXCEPT !.log = Append(@, NoneSlot)]
           /\ ret'.res \in ValidationErrors
           /\ pc'[a] = "upd_kp"

C7_ValidationFailure == [][C7_Step]_vars

C7_Witness ==
    /\ ret.op = "process_next_key_package"
    /\ ret.res = "CredentialError"
    /\ DOMAIN mem[ret.who].peers # {}
    /\ pc[ret.who] = "upd_kp"

\* C8: after a get of a drain loop failed with a store error the loop is
\* over: the agent is not back in the loop, about to get again.
C8_StoreErrorEndsDrain ==
    ~(/\ ret.op \in DrainOps
      /\ ret.res = "StoreError"
      /\ pc[ret.who] \in {"upd_kp", "upd_wm"})

\* C9: add_to_group merges the commit only after the put of the commit has
\* returned Ok; when that put fails, add_to_group returns the error with
\* the group not merged, no welcome slot written and the store untouched.
C9_Held ==
    /\ \A a \in Agents : pc[a] = "atg_cm_w" => mem[a].groups = disk[a].groups
    /\ \A a \in Agents : pc[a] \in {"atg_wm", "atg_wm_w"} =>
           file_exists(job[a].key) /\ Merged(a)
    /\ ret.op = "add_to_group" =>
           /\ ret.merged => ret.cm
           /\ ret.wm => ret.merged
           /\ ret.res = "Ok" => ret.wm

C9_Step ==
    \A a \in Agents :
        (Returns(a) /\ ret'.op = "add_to_group" /\ ~ret'.cm)
        => /\ ret'.res # "Ok"
           /\ ~ret'.merged
           /\ files' = files

C9_MergeAfterPublish == []C9_Held /\ [][C9_Step]_vars

C9_Witness ==
    /\ ret.op = "add_to_group"
    /\ ret.res = "Key already exists"

\* C10: neither advertise nor add_to_group ever returns the store's
\* "Key already exists" to its caller.
C10_ConflictNeverReturned ==
    ~(ret.op \in {"advertise", "add_to_group"} /\ ret.res = "Key already exists")

\* The errors that are fatal to the enclosing operation: store errors and
\* engine errors (neither the key conflict nor a mailbox-empty sentinel).
FatalErrors == {"StoreError", "EngineError"}

\* The command of agent a ends in this step.
Ends(a) == pc'[a] = "idle" /\ (pc[a] # "idle" \/ Returns(a))

\* The running update of agent a consumed welcome slots and joined no group:
\* each of them failed in the engine.
JoinFailed(a) ==
    /\ pc[a] = "upd_wm"
    /\ mem[a].wc > disk[a].wc
    /\ mem[a].gids = disk[a].gids

\* C11: an invocation during which a store error or an engine error occurred
\* leaves the agent state on disk as it was before the invocation.
C11_Step ==
    \A a \in Agents :
        (/\ Ends(a)
         /\ \/ Returns(a) /\ ret'.res \in FatalErrors
            \/ JoinFailed(a))
        => disk'[a] = disk[a]

C11_NoPersistOnError == [][C11_Step]_vars

NotFoundErrors == {"Group not found", "Key package not found"}

\* C12: add_to_group with an unknown group id, or with a peer id that has no
\* usable key package, returns a not-found error; and an add_to_group that
\* returns a not-found error has written no key to the store, has left the
\* group state as it was and ends without the state being persisted.
C12_Answer ==
    \A a \in Agents, gid \in Gids, pids \in SUBSET Peers :
        LET res == add_to_group_prepare(mem[a], gid, pids) IN
        /\ ~(gid \in DOMAIN mem[a].groups) => res = "Group not found"
        /\ (gid \in DOMAIN mem[a].groups
            /\ \E p \in pids : ~get_key_package(mem[a], p).some)
           => res = "Key package not found"

C12_Step ==
    \A a \in Agents :
        (Returns(a) /\ ret'.op = "add_to_group" /\ ret'.res \in NotFoundErrors)
        => /\ files' = files
           /\ ~ret'.cm /\ ~ret'.merged /\ ~ret'.wm
           /\ disk'[a] = disk[a]
           /\ mem'[a] = disk[a]
           /\ pc'[a] = "idle"

C12_NotFoundBeforeWrite == []C12_Answer /\ [][C12_Step]_vars

C12_Witness ==
    /\ ret.op = "add_to_group"
    /\ ret.res = "Key package not found"
    /\ DOMAIN mem[ret.who].peers # {}
    /\ DOMAIN mem[ret.who].groups # {}

\* C13 (I3): in every agent state, in memory and on disk, every entry of
\* the peer index is a valid index into the key-package log, and the slot it
\* points at is a Some slot holding a key package whose credential identity
\* is that peer id; no entry points at a None placeholder.
PeerIndexValid(st) ==
    \A pid \in DOMAIN st.peers :
        /\ st.peers[pid] < Len(st.log)
        /\ log_at(st, st.peers[pid]).some
        /\ credential_identity(log_at(st, st.peers[pid]).kp) = pid

C13_PeerIndexValid ==
    \A a \in Agents : PeerIndexValid(mem[a]) /\ PeerIndexValid(disk[a])

C13_Witness ==
    \E a \in Agents :
        /\ \E i \in 1..Len(disk[a].log) : ~disk[a].log[i].some
        /\ \E pid \in DOMAIN disk[a].peers : disk[a].peers[pid] >= 1

\* The keys a step creates in the store.
NewKeys == DOMAIN files' \ DOMAIN files

\* C14: an add_to_group that returns Ok has created exactly one key under
\* "cm_" (its commit put) and exactly one under "wm_" (its welcome put) and
\* no other key, and afterwards the group's local membership, in memory and
\* as saved, contains every peer it was given.
C14_Step ==
    \A a \in Agents :
        (Returns(a) /\ ret'.op = "add_to_group" /\ ret'.res = "Ok")
        => /\ job[a].created \cup NewKeys = {job[a].key, KeyOf("wm_", ctr[a])}
           /\ job[a].pids \subseteq mem'[a].groups[job[a].gid].members
           /\ job[a].pids \subseteq disk'[a].groups[job[a].gid].members

C14_AddToGroupWrites == [][C14_Step]_vars

\* C15: every update invocation terminates (both drain loops end), whatever
\* the store's calls return; create-group ends in its one step.
C15_UpdateTerminates ==
    \A a \in Agents : (pc[a] \in {"upd_kp", "upd_wm"}) ~> (pc[a] = "idle")

\* C16: an advertise that returns Ok has written its key package at the
\* first index, from its candidate index on, that was unwritten: it created
\* that slot, so two advertisers that both start at index 0 of an empty
\* mailbox end with kp_0 written by one and kp_1 by the other.
C16_Step ==
    \A a \in Agents :
        (Returns(a) /\ ret'.op = "advertise" /\ ret'.res = "Ok")
        => /\ NewKeys = {KeyOf("kp_", ctr[a])}
           /\ files'[KeyOf("kp_", ctr[a])] = hex_encode(new_key_package(a))
           /\ \A i \in 0..ctr[a] :
                 (Len(mem[a].log) <= i /\ i < ctr[a]) => file_exists(KeyOf("kp_", i))

C16_AdvertiseFirstFree == [][C16_Step]_vars

\* The indices of the log slots that hold an accepted key package of pid.
AcceptedFrom(st, pid) ==
    {i \in 0..(Len(st.log) - 1) :
        log_at(st, i).some /\ credential_identity(log_at(st, i).kp) = pid}

\* C17: in every agent state, for every peer id with an accepted key package
\* in the log, the peer index holds the largest log index of an accepted key
\* package of that peer: a later accepted one overwrites the entry, a
\* rejected slot (None) does not change it.
\* (said slot by slot: the peer of an accepted slot has an entry, which names
\* an accepted slot of that peer, this one or a later one)
PeerIndexCurrent(st) ==
    \A i \in 0..(Len(st.log) - 1) :
        log_at(st, i).some =>
            LET pid == credential_identity(log_at(st, i).kp) IN
            /\ pid \in DOMAIN st.peers
            /\ st.peers[pid] >= i
            /\ st.peers[pid] < Len(st.log)
            /\ log_at(st, st.peers[pid]).some
            /\ credential_identity(log_at(st, st.peers[pid]).kp) = pid

C17_PeerIndexCurrent ==
    \A a \in Agents : PeerIndexCurrent(mem[a]) /\ PeerIndexCurrent(disk[a])

C17_Witness ==
    \E a \in Agents, pid \in Peers :
        /\ Cardinality(AcceptedFrom(disk[a], pid)) >= 2
        /\ disk[a].peers[pid] = 1

\* An id of the form label + "__" + 8 hex characters.
HasIdForm(id, label) ==
    /\ Len(id) = Len(label) + 10
    /\ SubSeq(id, 1, Len(label)) = label
    /\ id[Len(label) + 1] = "_" /\ id[Len(label) + 2] = "_"
    /\ \A i \in (Len(label) + 3)..Len(id) : IsHexChar(id[i])

\* The group id of the welcome in the slot at agent a's welcome cursor.
WelcomeGid(a) == hex_decode(trim(files[KeyOf("wm_", mem[a].wc)])).val[1]

\* C18: known_group_ids holds exactly the groups the agent created or
\* joined.  A create_group that returns Ok adds exactly one id, of the form
\* label + "__" + 8 hex characters; a welcome that is joined adds exactly
\* the joined group's id; a create_group that fails in the engine, a welcome
\* whose parse or join fails, and every other call add nothing.
C18_Held ==
    \A a \in Agents :
        /\ mem[a].gids = DOMAIN mem[a].groups
        /\ disk[a].gids = DOMAIN disk[a].groups
        /\ \A g \in mem[a].gids \cap Gids : HasIdForm(GidString(g), GroupLabel)

C18_Step ==
    \A a \in Agents :
        /\ (Returns(a) /\ ret'.op = "create_group" /\ ret'.res = "Ok")
           => \E g \in Gids :
                 /\ ~(g \in disk[a].gids)
                 /\ disk'[a].gids = disk[a].gids \cup {g}
                 /\ mem'[a].gids = disk'[a].gids
        /\ (Returns(a) /\ ret'.op = "create_group" /\ ret'.res # "Ok")
           => disk'[a].gids = disk[a].gids /\ mem'[a].gids = disk[a].gids
        /\ (Returns(a) /\ ret'.op = "process_next_welcome_message" /\ ret'.res = "Ok")
           => /\ ~(WelcomeGid(a) \in mem[a].gids)
              /\ mem'[a].gids = mem[a].gids \cup {WelcomeGid(a)}
        /\ (Returns(a) /\ ret'.op = "process_next_welcome_message" /\ ret'.res # "Ok")
           => mem'[a].gids = mem[a].gids
        /\ (Returns(a) /\ ret'.op \notin {"create_group", "process_next_welcome_message"})
           => mem'[a].gids \in {mem[a].gids, disk[a].gids}
        /\ disk'[a].gids \in {disk[a].gids, mem'[a].gids}

C18_KnownGroupIds == []C18_Held /\ [][C18_Step]_vars

C18_Witness ==
    /\ ret.op = "process_next_welcome_message" /\ ret.res = "Ok"
    /\ mem[ret.who].gids = {1}
    /\ \E b \in Agents : b # ret.who /\ disk[b].gids = {1} /\ disk[b].wc >= 1

\* The process of agent a dies at this step.
Crashes(a) == Returns(a) /\ ret'.op = "crash"

\* C19: the state file changes only by the save that ends an invocation, so
\* a crash in the middle of an update leaves the persisted cursors at their
\* values of before the invocation; every invocation starts from the
\* persisted state, each pass observes the slot at its cursor and the cursor
\* passes a slot only by a pass that observed it present, so the next update
\* observes the slots of the dead one again and no written slot is skipped.
C19_Held ==
    \A a \in Agents :
        /\ pc[a] = "idle" => mem[a] = disk[a]
        /\ Len(disk[a].log) <= Len(mem[a].log) /\ disk[a].wc <= mem[a].wc
        /\ InOrder(fetched[a].kp, Len(mem[a].log))
        /\ InOrder(fetched[a].wm, mem[a].wc)

C19_Step ==
    \A a \in Agents :
        /\ disk'[a] # disk[a]
           => pc'[a] = "idle" /\ Returns(a) /\ disk'[a] = mem'[a]
        /\ Crashes(a) => disk'[a] = disk[a] /\ mem'[a] = disk[a]
        /\ Len(mem'[a].log) > Len(mem[a].log)
           => /\ Len(mem'[a].log) = Len(mem[a].log) + 1
              /\ file_exists(KeyOf("kp_", Len(mem[a].log)))
              /\ fetched'[a].kp = Append(fetched[a].kp, Len(mem[a].log))
        /\ mem'[a].wc > mem[a].wc
           => /\ mem'[a].wc = mem[a].wc + 1
              /\ file_exists(KeyOf("wm_", mem[a].wc))
              /\ fetched'[a].wm = Append(fetched[a].wm, mem[a].wc)

C19_CrashRecovery == []C19_Held /\ [][C19_Step]_vars

\* an update died after it consumed a key-package slot and a welcome slot in
\* memory: both slots are at the persisted cursors, to be observed again
C19_Witness ==
    \E a \in Agents :
        /\ ret.who = a /\ ret.op = "crash" /\ ret.res = "Lost"
        /\ pc[a] = "idle"
        /\ file_exists(KeyOf("kp_", Len(disk[a].log)))
        /\ file_exists(KeyOf("wm_", disk[a].wc))
        /\ fetched[a] = [kp |-> <<>>, wm |-> <<>>]

\* C20: store round trip.  The value a put_checked stored with success is
\* what get returns for its key from then on: a key written at this step
\* reads back as the bytes whose hex encoding was written, a key that reads
\* Some(v) keeps reading Some(v), and a key with no file reads None.
Reads(k) == get(k, FALSE)

C20_Step ==
    /\ \A k \in DOMAIN files' \ DOMAIN files :
         /\ Reads(k)'.tag = "Some"
         /\ hex_encode(Reads(k)'.val) = files'[k]
    /\ \A k \in DOMAIN files : Reads(k).tag = "Some" => Reads(k)' = Reads(k)
    /\ \A k \in StoreKeys \ DOMAIN files : Reads(k).tag = "None"

C20_StoreRoundTrip == [][C20_Step]_vars

\* The add_to_group of agent a has just aborted on a store error after its
\* commit was published: the state file is that of before the call.
AbortedAfterCommit(a) ==
    /\ ret.who = a /\ ret.op = "add_to_group"
    /\ ret.res = "StoreError" /\ ret.cm

\* The key under which agent a, starting from its state file, publishes the
\* commit of its next add_to_group on group gid.
NextCommitKey(a, gid) ==
    KeyOf("cm_", hex_encode(export_secret(gid, disk[a].groups[gid])))

\* C21: when add_to_group has published its commit and then aborted on a
\* store error, the same add_to_group run again from the state file can go
\* through: the put_checked of its commit does not find the key taken.
C21_RetryAfterAbort ==
    \A a \in Agents :
        AbortedAfterCommit(a) =>
            \A gid \in DOMAIN disk[a].groups :
                put_checked_exists(NextCommitKey(a, gid), FALSE) = "Absent"

\* Where a process is while it runs advertise or add_to_group.
ProducerPcs == {"adv", "adv_w", "atg_cm_w", "atg_wm", "atg_wm_w"}

\* Agent a takes a step of advertise or of add_to_group.
Produces(a) ==
    \/ pc[a] \in ProducerPcs /\ (pc'[a] # pc[a] \/ ctr'[a] # ctr[a] \/ Returns(a))
    \/ pc'[a] \in ProducerPcs /\ pc[a] = "idle"
    \/ Returns(a) /\ ret'.op \in {"advertise", "add_to_group"}

\* The consumer part of an agent state.
Consumed(st) == <<st.log, st.peers, st.wc>>

\* C22: no step of advertise or of add_to_group, successful, failing or
\* retrying over a conflict, changes the caller's key-package log, peer
\* index or welcome cursor, in memory or in the state file; the slot a
\* successful producer wrote is at or beyond the caller's cursor, where a
\* later drain consumes it.
C22_Step ==
    \A a \in Agents :
        Produces(a) =>
            /\ Consumed(mem'[a]) = Consumed(mem[a])
            /\ Consumed(disk'[a]) = Consumed(disk[a])
            /\ (Returns(a) /\ ret'.res = "Ok") =>
                 IF ret'.op = "advertise"
                 THEN /\ ctr[a] >= Len(disk'[a].log)
                      /\ KeyOf("kp_", ctr[a]) \in DOMAIN files'
                 ELSE /\ ctr[a] >= disk'[a].wc
                      /\ KeyOf("wm_", ctr[a]) \in DOMAIN files'

C22_ProducersLeaveConsumerState == [][C22_Step]_vars

\* an add_to_group that went over a taken welcome slot has succeeded: the
\* caller's log is as the last drain left it and its own welcome is in a
\* slot beyond its cursor
C22_Witness ==
    \E a \in Agents :
        /\ ret.who = a /\ ret.op = "add_to_group" /\ ret.res = "Ok"
        /\ Len(disk[a].log) >= 1
        /\ KeyOf("wm_", disk[a].wc) \in DOMAIN files
        /\ \E i \in Slots("wm_") : i > disk[a].wc

\* The log of st mirrors the key-package mailbox: each of its slots is in
\* the store, and its entry is Some exactly when what the slot holds passes
\* the validation steps.
LogMirrorsMailbox(st) ==
    \A i \in 0..(Len(st.log) - 1) :
        LET got == get(KeyOf("kp_", i), FALSE) IN
        /\ file_exists(KeyOf("kp_", i))
        /\ got.tag = "Some"
        /\ log_at(st, i).some <=> ~Rejected(got.val)

\* C23: in every reachable state, for every agent and every index below the
\* length of its key-package log, the slot "kp_" + index is present in the
\* store and the log entry is Some exactly when the stored artifact passes
\* validation, None exactly when it fails; no entry stands for an unwritten
\* slot.
C23_LogMirrorsMailbox ==
    \A a \in Agents : LogMirrorsMailbox(mem[a]) /\ LogMirrorsMailbox(disk[a])

C23_Witness ==
    \E a \in Agents :
        /\ Len(disk[a].log) = 2
        /\ disk[a].log[1].some
        /\ ~disk[a].log[2].some

\* a slot was consumed and then written over by a racing advertise
C23_Overwritten ==
    \E a \in Agents : \E i \in 0..(Len(disk[a].log) - 1) :
        /\ log_at(disk[a], i).some
        /\ log_at(disk[a], i).kp # get(KeyOf("kp_", i), FALSE).val

====
